---- MODULE Spec2Model ----
(***************************************************************************)
(* A model of openllm/_configuration.py: the LLMConfig schema build        *)
(* (__init_subclass__), the generation sub-schema, the instance            *)
(* constructor, the deep-merge policy and the structuring bridge.          *)
(***************************************************************************)
EXTENDS Integers, Sequences, FiniteSets, TLC

(***************************************************************************)
(* Python values.  Every value is a record of the same shape so that two   *)
(* values of different Python types can be compared: t is the type tag, n  *)
(* the number of an int, s the characters of a str, d the items of a dict. *)
(***************************************************************************)
EmptyDict == [k \in {} |-> 0]

Val(t, n, s, d) == [t |-> t, n |-> n, s |-> s, d |-> d]

NOTHING == Val("NOTHING", 0, <<>>, EmptyDict)

None == Val("None", 0, <<>>, EmptyDict)

PyInt(n) == Val("int", n, <<>>, EmptyDict)

PyStr(s) == Val("str", 0, s, EmptyDict)

PyBool(b) == Val("bool", IF b THEN 1 ELSE 0, <<>>, EmptyDict)

PyDict(d) == Val("dict", 0, <<>>, d)

IsDict(v) == v.t = "dict"

\* {k: v for k, v in d.items() if k in keys}
Restrict(d, keys) == [k \in DOMAIN d \cap keys |-> d[k]]

\* The elements of a sequence.
Range(seq) == {seq[i] : i \in DOMAIN seq}

\* The names of a sequence of attributes, in order.
Names(attrs) == [i \in DOMAIN attrs |-> attrs[i].name]

(***************************************************************************)
(* Bounds of the model.                                                    *)
(***************************************************************************)
\* The largest number of environment variables that are set when the
\* program starts.
MaxEnvSet == 1

\* The largest number of items (keywords, generation_config items, extras
\* items) a single call is given.
MaxArgs == 2

(***************************************************************************)
(* config_merger: deepmerge's Merger with the dict strategy "merge", the   *)
(* fallback "override" and the type conflict strategy "override".          *)
(***************************************************************************)
RECURSIVE config_merger(_, _)

\* A merger that overrides dicts as well (no recursion into mappings).
config_merger_override(base, nxt) == nxt

config_merger(base, nxt) ==
    IF IsDict(base) /\ IsDict(nxt)
    THEN PyDict([k \in DOMAIN base.d \cup DOMAIN nxt.d |->
                 IF k \notin DOMAIN nxt.d THEN base.d[k]
                 ELSE IF k \notin DOMAIN base.d THEN nxt.d[k]
                 ELSE config_merger(base.d[k], nxt.d[k])])
    ELSE nxt

(***************************************************************************)
(* Names and the environment.                                              *)
(***************************************************************************)
\* str.upper() on the names of the model.
Upper(s) ==
    CASE s = "base" -> "BASE"
      [] s = "example" -> "EXAMPLE"
      [] s = "strict" -> "STRICT"
      [] s = "seed" -> "SEED"
      [] s = "max_tokens" -> "MAX_TOKENS"
      [] s = "first" -> "FIRST"
      [] s = "second" -> "SECOND"
      [] s = "top_k" -> "TOP_K"
      [] s = "min_new_tokens" -> "MIN_NEW_TOKENS"
      [] s = "use_cache" -> "USE_CACHE"
      [] s = "eos_token_id" -> "EOS_TOKEN_ID"
      [] s = "generation_top_k" -> "GENERATION_TOP_K"

\* The values an environment variable is set to: "7" and "50".
EnvStrings == {<<"7">>, <<"5", "0">>}

\* os.environ.get(key, fallback): the variable's string, or the fallback.
_populate_value_from_env_var_ignore(environ, key, fallback) == fallback

_populate_value_from_env_var(environ, key, fallback) ==
    IF key \in DOMAIN environ THEN PyStr(environ[key]) ELSE fallback

\* f"OPENLLM_{model_name.upper()}_{key.upper()}"
field_env_key(model_name, key) ==
    "OPENLLM_" \o Upper(model_name) \o "_" \o Upper(key)

\* f"OPENLLM_{model_name.upper()}_GENERATION_{name.upper()}"
generation_env_key(model_name, name) ==
    "OPENLLM_" \o Upper(model_name) \o "_GENERATION_" \o Upper(name)


(***************************************************************************)
(* Attributes, class statements and built classes.                         *)
(***************************************************************************)
\* An attr.Attribute: env is metadata["env"].
Attribute(name, type, default, kw_only, init, inherited, env) ==
    [name |-> name, type |-> type, default |-> default, kw_only |-> kw_only,
     init |-> init, inherited |-> inherited, env |-> env]

\* a.evolve(default=value)
EvolveDefault(a, value) == [a EXCEPT !.default = value]

\* The default dantic.Field gives an attribute declared without one.
FieldDefault == None

\* One entry of a class body: a name, whether it is annotated, whether its
\* value is a _CountingAttr (declared through Field), and what the entry or
\* the Field holds (default = NOTHING: no value, or a mandatory Field).
Entry(name, type, annotated, counting, default, kw_only) ==
    [name |-> name, type |-> type, annotated |-> annotated,
     counting |-> counting, default |-> default, kw_only |-> kw_only]

\* The fields of the base GenerationConfig the model keeps: top_k (int,
\* default 50), min_new_tokens (int, Field without a default), use_cache
\* (bool, default True) and eos_token_id (t.Union[int, t.List[int]], Field
\* without a default).  type is the declared type: "list" stands for a
\* sequence type, "union" for a t.Union.
GenerationConfig ==
    << Attribute("top_k", "int", PyInt(50), FALSE, TRUE, FALSE, ""),
       Attribute("min_new_tokens", "int", FieldDefault, FALSE, TRUE, FALSE, ""),
       Attribute("use_cache", "bool", PyBool(TRUE), FALSE, TRUE, FALSE, ""),
       Attribute("eos_token_id", "union", FieldDefault, FALSE, TRUE, FALSE, "") >>

\* attr.fields_dict(generation_class).keys() of every schema.
GenerationNames == Range(Names(GenerationConfig))

\* A class statement: class <name>(<base>) with its __config__, its body and
\* its GenerationConfig block (has_block, block: name -> value).
ClassStatement(name, base, has_default_id, has_model_ids, body, has_block, block) ==
    [name |-> name, base |-> base, has_default_id |-> has_default_id,
     has_model_ids |-> has_model_ids, body |-> body, has_block |-> has_block,
     block |-> block]

\* No class statement.
NoStatement == ClassStatement("", "", FALSE, FALSE, <<>>, FALSE, EmptyDict)

\* A class that has not been defined.  stmt is the class statement that
\* defines the class.
Undefined(name) ==
    [name |-> name, state |-> "undefined", error |-> "", mro |-> <<>>,
     stmt |-> NoStatement,
     model_name |-> "", assigned |-> FALSE, openllm_attrs |-> <<>>,
     attrs_attrs |-> <<>>, accepted_keys |-> {}, generation_class |-> <<>>,
     has_attrs |-> FALSE, has_generation_class |-> FALSE, repr |-> <<>>]

\* LLMConfig itself: an attrs class without fields.
LLMConfigClass ==
    [Undefined("LLMConfig") EXCEPT !.state = "built",
                                   !.mro = <<"LLMConfig", "object">>,
                                   !.has_attrs = TRUE]

\* inflection.underscore(cls.__name__.replace("Config", ""))
default_model_name(cls_name) ==
    CASE cls_name = "BaseConfig" -> "base"
      [] cls_name = "ExampleConfig" -> "example"
      [] cls_name = "StrictConfig" -> "strict"

(***************************************************************************)
(* Schema build: LLMConfig.__init_subclass__ and its helpers.              *)
(***************************************************************************)
\* _gen_default_model_config: the error it raises, "" when it raises none.
_gen_default_model_config(stmt) ==
    IF ~stmt.has_default_id \/ ~stmt.has_model_ids THEN "RuntimeError" ELSE ""

\* ca_names - annotated_names: the Fields of the body without annotation.
unannotated(stmt) ==
    {stmt.body[i].name : i \in {j \in DOMAIN stmt.body :
        stmt.body[j].counting /\ ~stmt.body[j].annotated}}

\* own_attrs: one attribute per annotated entry, in annotation order.  An
\* entry that is no Field is wrapped in Field(default=val, env=...), in
\* Field(env=...) when the body gives it no value.
own_attrs(stmt, model_name) ==
    LET anns == SelectSeq(stmt.body, LAMBDA e : e.annotated)
    IN  [i \in DOMAIN anns |->
           LET e == anns[i]
               default == IF e.counting THEN e.default
                          ELSE IF e.default = NOTHING THEN FieldDefault
                          ELSE e.default
           IN  Attribute(e.name, e.type, default, e.kw_only, TRUE, FALSE,
                         field_env_key(model_name, e.name))]

\* The attributes _collect_base_attrs gathers from the classes of bases (in
\* the order given), before filtering.
RECURSIVE gather_base_attrs(_, _, _)

gather_base_attrs(bases, taken_attr_names, reg) ==
    IF bases = <<>> THEN <<>>
    ELSE LET own == SelectSeq(reg[Head(bases)].attrs_attrs,
                      LAMBDA a : ~a.inherited /\ a.name \notin taken_attr_names)
         IN  [i \in DOMAIN own |-> [own[i] EXCEPT !.inherited = TRUE]]
             \o gather_base_attrs(Tail(bases), taken_attr_names, reg)

\* reversed(seq)
Reversed(seq) == [i \in DOMAIN seq |-> seq[Len(seq) + 1 - i]]

\* _collect_base_attrs keeping, for each name, the oldest definition (the
\* first met when walking from the root).
_collect_base_attrs_oldest(mro, taken_attr_names, reg) ==
    LET bases == Reversed(SubSeq(mro, 2, Len(mro) - 1))
        base_attrs == gather_base_attrs(bases, taken_attr_names, reg)
        kept == SelectSeq([i \in DOMAIN base_attrs |->
                             [a |-> base_attrs[i],
                              k |-> \A j \in DOMAIN base_attrs :
                                       j < i => base_attrs[j].name # base_attrs[i].name]],
                          LAMBDA x : x.k)
    IN  [i \in DOMAIN kept |-> kept[i].a]

\* _collect_base_attrs(cls, taken_attr_names): walk reversed(cls.__mro__[1:-1])
\* and keep, for each name, the freshest definition (the furthest at the back).
_collect_base_attrs(mro, taken_attr_names, reg) ==
    LET bases == Reversed(SubSeq(mro, 2, Len(mro) - 1))
        base_attrs == gather_base_attrs(bases, taken_attr_names, reg)
        keep == {i \in DOMAIN base_attrs :
                   \A j \in DOMAIN base_attrs :
                      j > i => base_attrs[j].name # base_attrs[i].name}
        kept == SelectSeq([i \in DOMAIN base_attrs |->
                             [a |-> base_attrs[i], k |-> i \in keep]],
                          LAMBDA x : x.k)
    IN  [i \in DOMAIN kept |-> kept[i].a]

\* The check of lines 936-945: TRUE when, among the attributes that are part
\* of __init__ and not kw_only, a mandatory one follows one with a default.
mandatory_after_default(attrs) ==
    LET pos == SelectSeq(attrs, LAMBDA a : a.init /\ ~a.kw_only)
    IN  \E i, j \in DOMAIN pos :
           /\ i < j
           /\ pos[i].default # NOTHING
           /\ pos[j].default = NOTHING

\* Lines 948-955: every attribute takes the value of its environment
\* variable, when that is set, as its default.
resolve_env_defaults(attrs, model_name, environ) ==
    [i \in DOMAIN attrs |->
       EvolveDefault(attrs[i],
          _populate_value_from_env_var(environ,
             field_env_key(model_name, attrs[i].name), attrs[i].default))]

\* A field transformer that prefers the environment to the override block.
_evolve_with_base_default_env_first(model_name, _has_gen_class, block, environ, fields) ==
    [i \in DOMAIN fields |->
       LET f == fields[i]
           env == generation_env_key(model_name, f.name)
           _from_env == _populate_value_from_env_var(environ, env, f.default)
           default_value ==
              IF ~_has_gen_class THEN f.default
              ELSE IF env \in DOMAIN environ THEN _from_env
              ELSE IF f.name \in DOMAIN block THEN block[f.name]
              ELSE _from_env
       IN  [f EXCEPT !.default = default_value, !.env = env, !.inherited = TRUE]]

\* _make_internal_generation_class._evolve_with_base_default: the fields of
\* the derived generation class.
_evolve_with_base_default(model_name, _has_gen_class, block, environ, fields) ==
    [i \in DOMAIN fields |->
       LET f == fields[i]
           env == generation_env_key(model_name, f.name)
           _from_env == _populate_value_from_env_var(environ, env, f.default)
           default_value ==
              IF ~_has_gen_class THEN f.default
              ELSE IF f.name \in DOMAIN block THEN block[f.name]
              ELSE _from_env
       IN  [f EXCEPT !.default = default_value, !.env = env, !.inherited = TRUE]]

\* _make_internal_generation_class(cls)
_make_internal_generation_class(stmt, model_name, environ) ==
    _evolve_with_base_default(model_name, stmt.has_block, stmt.block, environ,
                              GenerationConfig)

\* __init_subclass__(cls): the class object the class statement leaves, with
\* what was set on it before an error was raised.
__init_subclass__(stmt, environ, reg) ==
    LET cls0 == [Undefined(stmt.name) EXCEPT
                    !.stmt = stmt,
                    !.mro = <<stmt.name>> \o reg[stmt.base].mro]
        model_name == default_model_name(stmt.name)
        cls1 == [cls0 EXCEPT !.assigned = TRUE, !.model_name = model_name]
        own == own_attrs(stmt, model_name)
        base_attrs == _collect_base_attrs(cls0.mro, Range(Names(own)), reg)
        cls2 == [cls1 EXCEPT !.openllm_attrs = Names(own)]
        attrs == own \o base_attrs
        resolved == resolve_env_defaults(attrs, model_name, environ)
        generation_class == _make_internal_generation_class(stmt, model_name, environ)
    IN  IF _gen_default_model_config(stmt) # ""
        THEN [cls0 EXCEPT !.state = "failed",
                          !.error = _gen_default_model_config(stmt)]
        ELSE IF unannotated(stmt) # {}
        THEN [cls1 EXCEPT !.state = "failed",
                          !.error = "MissingAnnotationAttributeError"]
        ELSE IF mandatory_after_default(attrs)
        THEN [cls2 EXCEPT !.state = "failed", !.error = "ValueError"]
        ELSE [cls2 EXCEPT !.state = "built",
                          !.attrs_attrs = resolved,
                          !.has_attrs = TRUE,
                          !.generation_class = generation_class,
                          !.has_generation_class = TRUE,
                          !.accepted_keys = Range(Names(own))
                                            \cup Range(Names(generation_class))]

(***************************************************************************)
(* Instances: the attrs-generated initialisers and LLMConfig.__init__.     *)
(***************************************************************************)
DigitValue(c) ==
    CASE c = "0" -> 0 [] c = "1" -> 1 [] c = "2" -> 2 [] c = "3" -> 3
      [] c = "4" -> 4 [] c = "5" -> 5 [] c = "6" -> 6 [] c = "7" -> 7
      [] c = "8" -> 8 [] c = "9" -> 9

RECURSIVE ParseInt(_)

\* The number a string of decimal digits denotes.
ParseInt(s) ==
    IF s = <<>> THEN 0
    ELSE 10 * ParseInt(SubSeq(s, 1, Len(s) - 1)) + DigitValue(s[Len(s)])

\* The converter of a Field: a string (the value of an environment variable)
\* is interpreted per the declared type; any other value is kept.
Convert(type, v) ==
    IF v.t = "str" /\ type = "int" THEN PyInt(ParseInt(v.s)) ELSE v

\* No instance: the call raised.
NoInstance ==
    [cls |-> "", fields |-> EmptyDict, generation_config |-> EmptyDict,
     extras |-> None]

\* The initialiser attrs generates for a field table, called with keywords:
\* the error it raises ("" for none) and the value of every field.
attrs_init(attrs, kwargs) ==
    LET names == Range(Names(attrs))
        missing == {i \in DOMAIN attrs :
                      attrs[i].default = NOTHING /\ attrs[i].name \notin DOMAIN kwargs}
    IN  IF ~(DOMAIN kwargs \subseteq names) \/ missing # {}
        THEN [error |-> "TypeError", values |-> EmptyDict]
        ELSE [error |-> "",
              values |-> [n \in names |->
                 LET a == attrs[CHOOSE i \in DOMAIN attrs : attrs[i].name = n]
                 IN  Convert(a.type, IF n \in DOMAIN kwargs THEN kwargs[n]
                                     ELSE a.default)]]

\* Line 1000: the keywords that are not accepted keys.
extras_from_keywords(cls, attrs) ==
    Restrict(attrs, DOMAIN attrs \ cls.accepted_keys)

\* Lines 1003-1005 without the test for None.
keep_supplied_with_none(attrs, extras) ==
    Restrict(attrs, {k \in DOMAIN attrs : k \notin DOMAIN extras.d})

\* Lines 1003-1005: a keyword is deleted when it is a key of the extras or
\* when its value is None.
keep_supplied(attrs, extras) ==
    Restrict(attrs, {k \in DOMAIN attrs :
                       ~(k \in DOMAIN extras.d \/ attrs[k] = None)})

\* Lines 1020-1022: the colliding keywords are deleted.
drop_collisions(attrs, generation_keys) ==
    Restrict(attrs, DOMAIN attrs \ generation_keys)

\* Lines 1008-1023 with the keywords merged over an explicit mapping.
select_generation_config_merged(generation_config, attrs, gen_names) ==
    IF generation_config = None THEN PyDict(Restrict(attrs, gen_names))
    ELSE config_merger(generation_config, PyDict(Restrict(attrs, gen_names)))

\* Lines 1009-1010: without an explicit mapping the generation values are
\* the keywords that name generation fields.
select_generation_config(generation_config, attrs, gen_names) ==
    IF generation_config = None THEN PyDict(Restrict(attrs, gen_names))
    ELSE generation_config

\* The class after an assignment that stores the attributes of the repr as
\* the field table of the class.
assign_repr_as_table(cls) ==
    [cls EXCEPT !.repr = Names(cls.attrs_attrs) \o <<"generation_config">>,
                !.attrs_attrs = cls.attrs_attrs
                    \o <<Attribute("generation_config", "dict", None, FALSE,
                                   TRUE, FALSE, "")>>]

\* Lines 1026-1037: self.__class__.__repr__ is generated for the fields of
\* the class and generation_config, and assigned to the class.
assign_repr(cls) ==
    [cls EXCEPT !.repr = Names(cls.attrs_attrs) \o <<"generation_config">>]

\* The class after a call whose result is r: repr tells whether the call
\* reached line 1037.
class_after(cls, r) == IF r.repr THEN assign_repr(cls) ELSE cls

\* Lines 998-1001: the mapping self.__openllm_extras__ refers to after the
\* merge.  It is the mapping the caller passed, when one was passed: merge
\* changes a dict in place; for any other target its result is not kept.
merge_extras(cls, __openllm_extras__, attrs) ==
    LET extras0 == IF __openllm_extras__ = None THEN PyDict(EmptyDict)
                   ELSE __openllm_extras__
    IN  IF IsDict(extras0)
        THEN config_merger(extras0, PyDict(extras_from_keywords(cls, attrs)))
        ELSE extras0

\* LLMConfig.__init__(self, *, generation_config, __openllm_extras__, **attrs)
\* on a built class: the error raised, whether the warning was logged, and
\* the instance.
__init__(cls, generation_config, __openllm_extras__, attrs) ==
    LET extras == merge_extras(cls, __openllm_extras__, attrs)
        attrs1 == keep_supplied(attrs, extras)
        gen_names == Range(Names(cls.generation_class))
        generation_keys == DOMAIN attrs1 \cap gen_names
        gc == select_generation_config(generation_config, attrs1, gen_names)
        warned == generation_config # None /\ generation_keys # {}
        attrs2 == IF generation_config = None THEN attrs1
                  ELSE drop_collisions(attrs1, generation_keys)
        gen == attrs_init(cls.generation_class, gc.d)
        attrs3 == Restrict(attrs2, DOMAIN attrs2 \ DOMAIN gc.d)
        prim == attrs_init(cls.attrs_attrs, attrs3)
    IN  IF ~IsDict(extras) /\ DOMAIN attrs # {}
        THEN [error |-> "TypeError", warned |-> FALSE, inst |-> NoInstance,
              repr |-> FALSE]
        ELSE IF ~IsDict(gc) \/ gen.error # ""
        THEN [error |-> "TypeError", warned |-> warned, inst |-> NoInstance,
              repr |-> FALSE]
        ELSE IF prim.error # ""
        THEN [error |-> prim.error, warned |-> warned, inst |-> NoInstance,
              repr |-> TRUE]
        ELSE [error |-> "", warned |-> warned, repr |-> TRUE,
              inst |-> [cls |-> cls.name, fields |-> prim.values,
                        generation_config |-> gen.values, extras |-> extras]]

\* LLMConfig.__getattr__(self, item), lines 1046-1052: the value of the
\* generation config, else the item of the extras, else the AttributeError
\* of object.__getattribute__.  `item in extras` raises TypeError when the
\* extras are no container.
__getattr__(cls, inst, item) ==
    IF item \in Range(Names(cls.generation_class))
    THEN [error |-> "", value |-> inst.generation_config[item]]
    ELSE IF ~IsDict(inst.extras)
    THEN [error |-> "TypeError", value |-> None]
    ELSE IF item \in DOMAIN inst.extras.d
    THEN [error |-> "", value |-> inst.extras.d[item]]
    ELSE [error |-> "AttributeError", value |-> None]

\* getattr(inst, item): the slot of a primary field is found by the normal
\* lookup; __getattr__ is called for the names it does not find.
getattr(cls, inst, item) ==
    IF item \in DOMAIN inst.fields
    THEN [error |-> "", value |-> inst.fields[item]]
    ELSE __getattr__(cls, inst, item)

(***************************************************************************)
(* The structuring bridge: model_dump and structure_llm_config.            *)
(***************************************************************************)
\* The unstructure hook of a generation class (lines 407-414): the fields
\* whose default is None or NOTHING are omitted.
unstructure_generation(cls, values) ==
    Restrict(values,
             {cls.generation_class[i].name : i \in {j \in DOMAIN cls.generation_class :
                 cls.generation_class[j].default \notin {None, NOTHING}}})

\* LLMConfig.model_dump(self, flatten): the unstructure hook of the class
\* dumps every attribute of the field table.
model_dump(cls, inst, flatten) ==
    LET dumped == inst.fields
        generation_config == unstructure_generation(cls, inst.generation_config)
    IN  IF ~flatten
        THEN PyDict(("generation_config" :> PyDict(generation_config)) @@ dumped)
        ELSE PyDict(generation_config @@ dumped)

\* structure_llm_config(data, cls)
structure_llm_config(data, cls) ==
    LET cls_attrs == Restrict(data.d, Range(cls.openllm_attrs))
        generation_cls_fields == Range(Names(cls.generation_class))
        has_gc == "generation_config" \in DOMAIN data.d
        popped == Restrict(data.d, DOMAIN data.d \ {"generation_config"})
        generation_config ==
            IF has_gc
            THEN IF IsDict(data.d["generation_config"])
                 THEN config_merger(data.d["generation_config"],
                                    PyDict(Restrict(popped, generation_cls_fields)))
                 ELSE data.d["generation_config"]
            ELSE PyDict(Restrict(popped, generation_cls_fields))
        not_extras == DOMAIN cls_attrs \cup DOMAIN generation_config.d
        rest == Restrict(popped, DOMAIN popped \ not_extras)
    IN  IF ~IsDict(data) \/ ~IsDict(generation_config)
        THEN [error |-> "RuntimeError", warned |-> FALSE, inst |-> NoInstance,
              repr |-> FALSE]
        ELSE __init__(cls, generation_config, PyDict(rest), cls_attrs)

(***************************************************************************)
(* model_construct_env: the JSON override of the environment.              *)
(***************************************************************************)
\* The text of a JSON document is a sequence of lexemes: the digits of a
\* number one by one, the punctuation { } : , and the quoted names.
JSONDigits == {"0", "1", "2", "3", "4", "5", "6", "7", "8", "9"}

JSONPunctuation == {"{", "}", ":", ","}

IsNumber(toks) == toks # <<>> /\ \A i \in DOMAIN toks : toks[i] \in JSONDigits

\* The index of the brace that closes the object opened before toks[i] at
\* nesting depth, 0 when there is none.
RECURSIVE Close(_, _, _)

Close(toks, i, depth) ==
    IF i > Len(toks) THEN 0
    ELSE IF toks[i] = "{" THEN Close(toks, i + 1, depth + 1)
    ELSE IF toks[i] = "}"
    THEN IF depth = 1 THEN i ELSE Close(toks, i + 1, depth - 1)
    ELSE Close(toks, i + 1, depth)

\* The index of the last digit of the number that starts at toks[i].
RECURSIVE NumberEnd(_, _)

NumberEnd(toks, i) ==
    IF i < Len(toks) /\ toks[i + 1] \in JSONDigits THEN NumberEnd(toks, i + 1)
    ELSE i

JSONDecodeError == [ok |-> FALSE, v |-> None]

RECURSIVE loads(_)
RECURSIVE loads_members(_)

\* The members of an object: name : value, separated by commas; of two
\* members with one name the later is kept.
loads_members(m) ==
    IF m = <<>> THEN [ok |-> TRUE, v |-> PyDict(EmptyDict)]
    ELSE IF Len(m) < 3 THEN JSONDecodeError
    ELSE IF m[1] \in JSONDigits \cup JSONPunctuation \/ m[2] # ":"
    THEN JSONDecodeError
    ELSE LET stop == IF m[3] = "{" THEN Close(m, 3, 0)
                     ELSE IF m[3] \in JSONDigits THEN NumberEnd(m, 3)
                     ELSE 0
         IN  IF stop = 0 THEN JSONDecodeError
             ELSE LET value == loads(SubSeq(m, 3, stop))
                  IN  IF ~value.ok THEN JSONDecodeError
                      ELSE IF stop = Len(m)
                      THEN [ok |-> TRUE, v |-> PyDict(m[1] :> value.v)]
                      ELSE IF m[stop + 1] # "," \/ stop + 1 = Len(m)
                      THEN JSONDecodeError
                      ELSE LET rest == loads_members(SubSeq(m, stop + 2, Len(m)))
                           IN  IF ~rest.ok THEN JSONDecodeError
                               ELSE [ok |-> TRUE,
                                     v |-> PyDict(rest.v.d @@ (m[1] :> value.v))]

\* orjson.loads(text): a number or an object, or JSONDecodeError.
loads(toks) ==
    IF IsNumber(toks) THEN [ok |-> TRUE, v |-> PyInt(ParseInt(toks))]
    ELSE IF Len(toks) >= 2 /\ toks[1] = "{" /\ Close(toks, 1, 0) = Len(toks)
    THEN loads_members(SubSeq(toks, 2, Len(toks) - 1))
    ELSE JSONDecodeError

\* ModelEnv(model_name).model_config: the name of the variable that holds
\* the JSON override of a model.
model_config(model_name) == "OPENLLM_" \o Upper(model_name) \o "_CONFIG"

\* An error that does not tell which variable holds the text.
JSONParseError_anonymous(variable) ==
    "RuntimeError: Failed to parse the configuration as valid JSON string."

\* The error of lines 1100-1101, which names the variable.
JSONParseError(variable) ==
    "RuntimeError: Failed to parse '" \o variable \o "' as valid JSON string."

\* LLMConfig.model_construct_env(cls, **attrs) under the environment environ:
\* the error raised and the instance returned.  attr.evolve(inst, **changes)
\* calls the class with the values of the init attributes of inst and the
\* changes.
model_construct_env(cls, environ, kwargs) ==
    LET attrs == Restrict(kwargs, {k \in DOMAIN kwargs : kwargs[k] # None})
        variable == model_config(cls.model_name)
        env_json_string == IF variable \in DOMAIN environ THEN environ[variable]
                           ELSE <<>>
        config_from_env == loads(env_json_string)
        ncls == IF variable \in DOMAIN environ
                THEN structure_llm_config(config_from_env.v, cls)
                ELSE __init__(cls, None, None, EmptyDict)
        has_gc == "generation_config" \in DOMAIN attrs
        gen_names == Range(Names(cls.generation_class))
        generation_config == IF has_gc THEN attrs["generation_config"]
                             ELSE PyDict(Restrict(attrs, gen_names))
        popped == Restrict(attrs, DOMAIN attrs \ {"generation_config"})
        rest == Restrict(popped, DOMAIN popped \ DOMAIN generation_config.d)
        evolved == attrs_init(cls.generation_class,
                              generation_config.d @@ ncls.inst.generation_config)
    IN  IF variable \in DOMAIN environ /\ ~config_from_env.ok
        THEN [error |-> JSONParseError(variable), warned |-> FALSE,
              inst |-> NoInstance, repr |-> FALSE]
        ELSE IF ncls.error # "" THEN ncls
        ELSE IF has_gc /\ ~IsDict(generation_config)
        THEN [error |-> "RuntimeError", warned |-> ncls.warned, inst |-> NoInstance,
              repr |-> TRUE]
        ELSE IF evolved.error # ""
        THEN [error |-> evolved.error, warned |-> ncls.warned, inst |-> NoInstance,
              repr |-> TRUE]
        ELSE [__init__(cls, None, None, rest @@ ncls.inst.fields)
                 EXCEPT !.repr = TRUE]

(***************************************************************************)
(* The command line: attrs_to_options, to_click_options and                *)
(* model_validate_click.                                                   *)
(***************************************************************************)
\* inflection.dasherize(name) on the names of the model.
dasherize(s) ==
    CASE s = "seed" -> "seed"
      [] s = "first" -> "first"
      [] s = "second" -> "second"
      [] s = "max_tokens" -> "max-tokens"
      [] s = "top_k" -> "top-k"
      [] s = "min_new_tokens" -> "min-new-tokens"
      [] s = "use_cache" -> "use-cache"
      [] s = "eos_token_id" -> "eos-token-id"
      [] s = "generation_top_k" -> "generation-top-k"

\* inflection.underscore(name): the names of the model are in lower case
\* with underscores, which it keeps.
underscore(s) ==
    CASE s \in {"seed", "first", "second", "max_tokens", "top_k",
                "min_new_tokens", "use_cache", "eos_token_id",
                "generation_top_k"} -> s

\* dantic.allows_multiple(typ): the type is a sequence type.
allows_multiple(typ) == typ = "list"

\* The text of an annotation.  The module is compiled with "from __future__
\* import annotations" (line 38), so attr.define keeps as the type of a
\* field of GenerationConfig its annotation as written, a str; the type
\* itself is what t.get_type_hints gives (line 984).
annotation(type) == "'" \o type \o "'"

\* attr.fields_dict(cls.generation_class): the attributes as attr holds
\* them.
generation_fields(cls) ==
    [i \in DOMAIN cls.generation_class |->
       [cls.generation_class[i] EXCEPT !.type = annotation(@)]]

\* Lines 138-140: the flag, extended when field.type is bool.
full_option_name(dasherized, field, typ) ==
    "--" \o dasherized
         \o (IF field.type = "bool" THEN "/--no-" \o dasherized ELSE "")

\* attrs_to_options(name, field, model_name, typ, suffix_generation): the
\* arguments optgroup.option is given.
attrs_to_options(name, field, model_name, typ, suffix_generation) ==
    [name |-> name,
     suffix_generation |-> suffix_generation,
     identifier |-> IF suffix_generation
                    THEN model_name \o "_generation_" \o underscore(name)
                    ELSE model_name \o "_" \o underscore(name),
     full_option_name |-> full_option_name(dasherize(name), field, typ),
     type |-> typ,
     required |-> field.default = NOTHING,
     default |-> IF field.default \notin {NOTHING, None} THEN field.default
                 ELSE None,
     multiple |-> allows_multiple(typ),
     envvar |-> field.env]

\* The fields a pass keeps with their hints: those whose hint is no
\* t.Union (lines 1165-1167, 1178-1180).
not_union(fields, hints) ==
    SelectSeq([i \in DOMAIN fields |-> [field |-> fields[i], ty |-> hints[i]]],
              LAMBDA x : x.ty # "union")

\* Lines 1171-1183: the options of the fields of attr.fields_dict(cls); none
\* when the class declares no field of its own.
primary_options(cls) ==
    LET kept == not_union(cls.attrs_attrs,
                          [i \in DOMAIN cls.attrs_attrs |-> cls.attrs_attrs[i].type])
    IN  IF Len(cls.openllm_attrs) = 0 THEN <<>>
        ELSE [i \in DOMAIN kept |->
                attrs_to_options(kept[i].field.name, kept[i].field,
                                 cls.model_name, kept[i].ty, FALSE)]

\* Lines 1163-1169: the options of the generation fields.  The hint of a
\* field is its declared type.
generation_options(cls) ==
    LET kept == not_union(generation_fields(cls),
                          [i \in DOMAIN cls.generation_class |->
                             cls.generation_class[i].type])
    IN  [i \in DOMAIN kept |->
           attrs_to_options(kept[i].field.name, kept[i].field, cls.model_name,
                            kept[i].ty, TRUE)]

\* LLMConfig.to_click_options(cls, f): the options f is wrapped in.
to_click_options(cls) == generation_options(cls) \o primary_options(cls)

\* The texts that follow the model name in the keys of the model: the names
\* of the fields, alone and after "generation_".
KeyTails ==
    LET names == {"seed", "max_tokens", "first", "second", "generation_top_k",
                  "top_k", "min_new_tokens", "use_cache", "eos_token_id"}
    IN  names \cup {"generation_" \o n : n \in names}

\* k.startswith(prefix) and k[len(prefix):]
startswith(k, prefix) == \E tail \in KeyTails : k = prefix \o tail

removeprefix(k, prefix) == CHOOSE tail \in KeyTails : k = prefix \o tail

\* LLMConfig.model_validate_click(self, **attrs), lines 1117-1130: the
\* result of model_construct_env on the routed keys and the remaining click
\* attributes.
model_validate_click(cls, environ, attrs) ==
    LET generation_prefix == cls.model_name \o "_generation_"
        prefix == cls.model_name \o "_"
        generation_keys == {k \in DOMAIN attrs : startswith(k, generation_prefix)}
        config_keys == {k \in DOMAIN attrs \ generation_keys : startswith(k, prefix)}
        generation_config ==
            [x \in {removeprefix(k, generation_prefix) : k \in generation_keys} |->
               attrs[generation_prefix \o x]]
        llm_config_attrs ==
            [x \in {removeprefix(k, prefix) : k \in config_keys} |->
               attrs[prefix \o x]]
            @@ ("generation_config" :> PyDict(generation_config))
    IN  [result |-> model_construct_env(cls, environ, llm_config_attrs),
         remaining |-> Restrict(attrs, DOMAIN attrs \ (generation_keys \cup config_keys))]

(***************************************************************************)
(* The program: its class statements, its state and its operations.        *)
(***************************************************************************)
VARIABLES
    environ,    \* os.environ: variable name -> string
    registry,   \* class name -> the class object
    last        \* the operation in progress: its arguments and its result

vars == <<environ, registry, last>>

ClassNames == {"LLMConfig", "BaseConfig", "ExampleConfig", "StrictConfig"}

\* class BaseConfig(LLMConfig): seed: int = 1
BaseStatement ==
    ClassStatement("BaseConfig", "LLMConfig", TRUE, TRUE,
                   <<Entry("seed", "int", TRUE, FALSE, PyInt(1), FALSE)>>,
                   FALSE, EmptyDict)

\* The GenerationConfig blocks of ExampleConfig: none, and a block that
\* sets top_k = 10.
ExampleBlocks ==
    { [has |-> FALSE, block |-> EmptyDict],
      [has |-> TRUE, block |-> ("top_k" :> PyInt(10))] }

\* class ExampleConfig(BaseConfig): max_tokens: int = 20
ExampleStatements ==
    { ClassStatement("ExampleConfig", "BaseConfig", TRUE, TRUE,
                     <<Entry("max_tokens", "int", TRUE, FALSE, PyInt(20), FALSE)>>,
                     b.has, b.block) : b \in ExampleBlocks }

ScenarioStatements == {BaseStatement} \cup ExampleStatements

\* The environment variables of the scenario.
ScenarioEnvKeys ==
    { field_env_key("base", "seed"), field_env_key("example", "seed"),
      field_env_key("example", "max_tokens"),
      generation_env_key("example", "top_k"),
      generation_env_key("example", "min_new_tokens") }

\* The environments with at most MaxEnvSet variables of keys set.
Environments(keys) ==
    UNION { [S -> EnvStrings] : S \in {T \in SUBSET keys : Cardinality(T) <= MaxEnvSet} }

\* The arguments of the operations.
KeywordNames == {"max_tokens", "seed", "top_k", "min_new_tokens", "foo"}

KeywordValues(k) ==
    CASE k \in {"max_tokens", "top_k"} -> {None, PyInt(5)}
      [] k \in {"seed", "min_new_tokens"} -> {PyInt(5)}
      [] k = "foo" -> {None, PyInt(5), PyDict("x" :> PyInt(1))}

\* The sets of at most n of the names.
Subsets(names, n) == {T \in SUBSET names : Cardinality(T) <= n}

\* The keyword mappings: at most MaxArgs of the names, each with one of its
\* values.
Keywords ==
    UNION { {f \in [S -> UNION {KeywordValues(k) : k \in S}] : \A k \in S : f[k] \in KeywordValues(k)} :
            S \in Subsets(KeywordNames, MaxArgs) }

\* The generation fields an explicit generation_config names.
GenerationArgumentNames == {"top_k", "min_new_tokens"}

GenerationValues(k) == {PyInt(9)}

GenerationMappings ==
    {None} \cup {PyDict(f) : f \in
        UNION { {f \in [S -> UNION {GenerationValues(k) : k \in S}] : \A k \in S : f[k] \in GenerationValues(k)} :
            S \in Subsets(GenerationArgumentNames, MaxArgs) }}

ExtrasNames == {"foo", "top_k", "max_tokens", "seed"}

ExtrasValues(k) == IF k = "foo" THEN {PyInt(8), PyDict("y" :> PyInt(3))} ELSE {PyInt(8)}

ExtrasMappings ==
    {None} \cup {PyDict(f) : f \in
        (UNION { {f \in [S -> UNION {ExtrasValues(k) : k \in S}] : \A k \in S : f[k] \in ExtrasValues(k)} :
            S \in Subsets(ExtrasNames, MaxArgs) }) \ {EmptyDict}}

\* The number of items of a call's arguments.
Items(generation_config, extras, attrs) ==
    Cardinality(DOMAIN attrs) + Cardinality(DOMAIN generation_config.d)
    + Cardinality(DOMAIN extras.d)

\* No operation in progress.
Idle ==
    [op |-> "none", cls |-> "", attrs |-> EmptyDict, generation_config |-> None,
     extras |-> None, error |-> "", warned |-> FALSE, inst |-> NoInstance,
     target |-> None, source |-> None, out |-> None, again |-> NoInstance,
     again_error |-> "", env |-> EmptyDict, options |-> <<>>, item |-> ""]

Built(name) == registry[name].state = "built"

\* A class statement of stmts is executed.
Define(stmts) ==
    /\ last = Idle
    /\ \E stmt \in stmts :
          /\ registry[stmt.name].state = "undefined"
          /\ Built(stmt.base)
          /\ registry' = [registry EXCEPT
                            ![stmt.name] = __init_subclass__(stmt, environ, registry)]
    /\ UNCHANGED <<environ, last>>

DefineScenario == Define(ScenarioStatements)

\* cls(generation_config=..., __openllm_extras__=..., **attrs)
Construct ==
    /\ last = Idle
    /\ \E name \in {"BaseConfig", "ExampleConfig"} :
          /\ Built(name)
          /\ \E attrs \in Keywords, generation_config \in GenerationMappings,
                extras \in ExtrasMappings :
                /\ Items(generation_config, extras, attrs) <= MaxArgs
                /\ LET r == __init__(registry[name], generation_config, extras, attrs)
                   IN  last' = [Idle EXCEPT !.op = "construct", !.cls = name,
                                   !.attrs = attrs,
                                   !.generation_config = generation_config,
                                   !.extras = extras, !.error = r.error,
                                   !.warned = r.warned, !.inst = r.inst]
                       /\ registry' = [registry EXCEPT ![name] = class_after(@, r)]
    /\ UNCHANGED environ

\* structure(model_dump(i), type(i)) on the instance just constructed.
RoundTrip ==
    /\ last.op = "construct"
    /\ last.error = ""
    /\ LET cls == registry[last.cls]
           dumped == model_dump(cls, last.inst, FALSE)
           r == structure_llm_config(dumped, cls)
       IN  /\ last' = [last EXCEPT !.op = "roundtrip", !.out = dumped,
                          !.again = r.inst, !.again_error = r.error]
           /\ registry' = [registry EXCEPT ![last.cls] = class_after(@, r)]
    /\ UNCHANGED environ

\* The mappings config_merger is applied to: at most two levels deep.
MergeLeaves == {PyInt(1), PyInt(2), None}

MergeInner ==
    { PyDict(f) : f \in UNION { [S -> MergeLeaves] : S \in SUBSET {"x", "y"} } }

MergeOuter ==
    { PyDict(f) : f \in UNION { [S -> {PyInt(1)} \cup MergeInner] :
                                 S \in SUBSET {"a"} } }

MergeArguments == MergeLeaves \cup MergeInner \cup MergeOuter

\* config_merger.merge(target, source)
Merge ==
    /\ last = Idle
    /\ \E target \in MergeArguments, source \in MergeArguments :
          last' = [Idle EXCEPT !.op = "merge", !.target = target,
                      !.source = source, !.out = config_merger(target, source)]
    /\ UNCHANGED <<environ, registry>>

\* The operation returns.
Return ==
    /\ last # Idle
    /\ last' = Idle
    /\ UNCHANGED <<environ, registry>>

Init ==
    /\ environ \in Environments(ScenarioEnvKeys)
    /\ registry = [n \in ClassNames |->
                     IF n = "LLMConfig" THEN LLMConfigClass ELSE Undefined(n)]
    /\ last = Idle

Next ==
    \/ DefineScenario
    \/ Construct
    \/ RoundTrip
    \/ Return

Spec == Init /\ [][Next]_vars

\* config_merger on its own: every pair of arguments.
InitMerge ==
    /\ environ = EmptyDict
    /\ registry = [n \in ClassNames |->
                     IF n = "LLMConfig" THEN LLMConfigClass ELSE Undefined(n)]
    /\ last = Idle

NextMerge ==
    \/ Merge
    \/ Return

SpecMerge == InitMerge /\ [][NextMerge]_vars

\* Schema build on its own: class statements whose bodies declare the fields
\* first and second in every way a body can declare a field.
BuildFieldNames == <<"first", "second">>

\* The ways a class body declares the field name:
\*   name: int = 1            name: int
\*   name: int = Field(NOTHING)                name: int = Field(2)
\*   name = Field(2)          name: int = Field(NOTHING, kw_only=True)
BuildEntries(name) ==
    { Entry(name, "int", TRUE, FALSE, PyInt(1), FALSE),
      Entry(name, "int", TRUE, FALSE, NOTHING, FALSE),
      Entry(name, "int", TRUE, TRUE, NOTHING, FALSE),
      Entry(name, "int", TRUE, TRUE, PyInt(2), FALSE),
      Entry(name, "int", FALSE, TRUE, PyInt(2), FALSE),
      Entry(name, "int", TRUE, TRUE, NOTHING, TRUE) }

\* The class bodies: first, second, or both in that order.
BuildBodies ==
    {<<>>}
    \cup {<<e>> : e \in BuildEntries(BuildFieldNames[1]) \cup BuildEntries(BuildFieldNames[2])}
    \cup {<<e1, e2>> : e1 \in BuildEntries(BuildFieldNames[1]),
                       e2 \in BuildEntries(BuildFieldNames[2])}

\* The __config__ of a class body: whether it holds default_id, model_ids.
BuildConfigs == { <<TRUE, TRUE>>, <<FALSE, TRUE>>, <<TRUE, FALSE>> }

\* class BaseConfig(LLMConfig) and class StrictConfig(BaseConfig), each with
\* one of the bodies and without GenerationConfig block.  A class whose
\* __config__ lacks a key has a body of one entry at most.
BuildStatements ==
    { stmt \in
        { ClassStatement(n, IF n = "BaseConfig" THEN "LLMConfig" ELSE "BaseConfig",
                         cfg[1], cfg[2], body, FALSE, EmptyDict) :
            n \in {"BaseConfig", "StrictConfig"}, body \in BuildBodies,
            cfg \in BuildConfigs } :
        (stmt.has_default_id /\ stmt.has_model_ids) \/ Len(stmt.body) <= 1 }

BuildEnvKeys ==
    { field_env_key(m, BuildFieldNames[i]) :
        m \in {"base", "strict"}, i \in DOMAIN BuildFieldNames }

DefineAny == Define(BuildStatements)

InitBuild ==
    /\ environ \in Environments(BuildEnvKeys)
    /\ registry = [n \in ClassNames |->
                     IF n = "LLMConfig" THEN LLMConfigClass ELSE Undefined(n)]
    /\ last = Idle

NextBuild == DefineAny

SpecBuild == InitBuild /\ [][NextBuild]_vars

\* Inheritance on its own: the chain BaseConfig, ExampleConfig(BaseConfig),
\* StrictConfig(ExampleConfig).  Each class declares first and second, or
\* not, with a type and a default of its own, so that the declaration an
\* attribute of a field table comes from can be told.
ChainBase(n) ==
    CASE n = "BaseConfig" -> "LLMConfig"
      [] n = "ExampleConfig" -> "BaseConfig"
      [] n = "StrictConfig" -> "ExampleConfig"

ChainType(n) ==
    CASE n = "BaseConfig" -> "int"
      [] n = "ExampleConfig" -> "float"
      [] n = "StrictConfig" -> "str"

ChainDefault(n) ==
    CASE n = "BaseConfig" -> PyInt(1)
      [] n = "ExampleConfig" -> PyInt(2)
      [] n = "StrictConfig" -> PyInt(3)

\* name: <type of n> = <default of n>
ChainEntry(n, name) == Entry(name, ChainType(n), TRUE, FALSE, ChainDefault(n), FALSE)

ChainBodies(n) ==
    { <<>>, <<ChainEntry(n, "first")>>, <<ChainEntry(n, "second")>>,
      <<ChainEntry(n, "first"), ChainEntry(n, "second")>>,
      <<ChainEntry(n, "second"), ChainEntry(n, "first")>> }

ChainStatements ==
    UNION { { ClassStatement(n, ChainBase(n), TRUE, TRUE, body, FALSE, EmptyDict) :
                body \in ChainBodies(n) } :
            n \in {"BaseConfig", "ExampleConfig", "StrictConfig"} }

ChainEnvKeys ==
    { field_env_key(m, "first") : m \in {"base", "example", "strict"} }

DefineChain == Define(ChainStatements)

InitInherit ==
    /\ environ \in Environments(ChainEnvKeys)
    /\ registry = [n \in ClassNames |->
                     IF n = "LLMConfig" THEN LLMConfigClass ELSE Undefined(n)]
    /\ last = Idle

NextInherit == DefineChain

SpecInherit == InitInherit /\ [][NextInherit]_vars

\* The environment after schema build: calls of the constructor and of
\* model_construct_env, the process changing its environment between two
\* calls with the same arguments.
JSONTexts ==
    { <<"{", "seed", ":", "4", "}">>,
      <<"{", "max_tokens", ":", "4", "}">>,
      <<"{", "foo", ":", "4", "}">>,
      <<"{", "generation_config", ":", "{", "top_k", ":", "4", "}", "}">>,
      <<"{">>,
      <<"7">> }

\* class StrictConfig(BaseConfig): max_tokens: int = Field(NOTHING)
StrictStatement ==
    ClassStatement("StrictConfig", "BaseConfig", TRUE, TRUE,
                   <<Entry("max_tokens", "int", TRUE, TRUE, NOTHING, FALSE)>>,
                   FALSE, EmptyDict)

EnvCallStatements == {BaseStatement, StrictStatement}

EnvCallClasses == {stmt.name : stmt \in EnvCallStatements}

DefineEnv == Define(EnvCallStatements)

EnvCallKeys ==
    { field_env_key("base", "seed"), model_config("base"), model_config("strict") }

EnvCallValues(key) ==
    IF key = field_env_key("base", "seed") THEN EnvStrings ELSE JSONTexts

\* The environments with at most MaxEnvSet of the variables set.
EnvCallEnvironments ==
    UNION { {e \in [S -> UNION {EnvCallValues(k) : k \in S}] :
               \A k \in S : e[k] \in EnvCallValues(k)} :
            S \in Subsets(EnvCallKeys, MaxEnvSet) }

\* The keywords of the calls: none, a primary field (with a value or None),
\* a generation field and a name that is no field (with a value or None),
\* generation_config and __openllm_extras__ as a mapping and as a number,
\* alone and together with another keyword.
EnvCallKeywords ==
    { EmptyDict,
      "seed" :> PyInt(5),
      "seed" :> None,
      "top_k" :> None,
      "foo" :> None,
      ("seed" :> None) @@ ("max_tokens" :> PyInt(5)),
      "max_tokens" :> PyInt(5),
      "top_k" :> PyInt(5),
      "foo" :> PyInt(5),
      "generation_config" :> PyDict("top_k" :> PyInt(9)),
      "generation_config" :> PyInt(5),
      ("generation_config" :> PyDict("top_k" :> PyInt(9))) @@ ("top_k" :> PyInt(5)),
      ("generation_config" :> PyDict("top_k" :> PyInt(9))) @@ ("foo" :> PyInt(5)),
      "__openllm_extras__" :> PyInt(5),
      ("__openllm_extras__" :> PyInt(5)) @@ ("foo" :> PyInt(5)),
      "__openllm_extras__" :> PyDict("foo" :> PyInt(8)),
      ("__openllm_extras__" :> PyDict("foo" :> PyInt(8))) @@ ("seed" :> PyInt(5)) }

\* The call op of the class with the keywords attrs, under the environment.
Call(op, cls, env, attrs) ==
    IF op = "construct_env" THEN model_construct_env(cls, env, attrs)
    ELSE __init__(cls,
                  IF "generation_config" \in DOMAIN attrs
                  THEN attrs["generation_config"] ELSE None,
                  IF "__openllm_extras__" \in DOMAIN attrs
                  THEN attrs["__openllm_extras__"] ELSE None,
                  Restrict(attrs, DOMAIN attrs
                                  \ {"generation_config", "__openllm_extras__"}))

\* cls(**attrs) or cls.model_construct_env(**attrs)
CallEnv ==
    /\ last = Idle
    /\ \E n \in EnvCallClasses, attrs \in EnvCallKeywords,
          op \in {"construct", "construct_env"} :
          /\ Built(n)
          /\ op = "construct_env" => "__openllm_extras__" \notin DOMAIN attrs
          /\ LET r == Call(op, registry[n], environ, attrs)
             IN  /\ last' = [Idle EXCEPT !.op = op, !.cls = n, !.attrs = attrs,
                                !.env = environ,
                                !.error = r.error, !.warned = r.warned,
                                !.inst = r.inst]
                 /\ registry' = [registry EXCEPT ![n] = class_after(@, r)]
    /\ UNCHANGED environ

\* os.environ[key] = value, or del os.environ[key], once after a call.
SetEnv ==
    /\ last.op \in {"construct", "construct_env"}
    /\ environ = last.env
    /\ \E key \in EnvCallKeys :
          \/ /\ key \in DOMAIN environ
             /\ environ' = [k \in DOMAIN environ \ {key} |-> environ[k]]
          \/ \E value \in EnvCallValues(key) :
                /\ Cardinality(DOMAIN environ \cup {key}) <= MaxEnvSet
                /\ environ' = (key :> value) @@ environ
                /\ environ' # environ
    /\ UNCHANGED <<registry, last>>

\* The call is made again with the same arguments.
CallAgain ==
    /\ last.op \in {"construct", "construct_env"}
    /\ LET r == Call(last.op, registry[last.cls], environ, last.attrs)
       IN  /\ last' = [last EXCEPT !.op = last.op \o "_again", !.env = environ,
                          !.again = r.inst, !.again_error = r.error]
           /\ registry' = [registry EXCEPT ![last.cls] = class_after(@, r)]
    /\ UNCHANGED environ

\* The keywords of a second call that is given the mapping of the first.
SharedKeywords == { EmptyDict, "foo" :> PyInt(5), "seed" :> PyInt(5) }

\* cls(__openllm_extras__=e, **attrs) after cls(__openllm_extras__=e, ...)
\* returned an instance: e is the mapping the first instance holds as its
\* extras, and out is what that instance holds after the second call.
ConstructShared ==
    /\ last.op = "construct"
    /\ last.error = ""
    /\ "__openllm_extras__" \in DOMAIN last.attrs
    /\ IsDict(last.attrs["__openllm_extras__"])
    /\ \E attrs \in SharedKeywords :
          LET cls == registry[last.cls]
              e == last.inst.extras
              r == __init__(cls, None, e, attrs)
          IN  /\ last' = [last EXCEPT !.op = "construct_shared",
                             !.out = merge_extras(cls, e, attrs),
                             !.again = r.inst, !.again_error = r.error]
              /\ registry' = [registry EXCEPT ![last.cls] = class_after(@, r)]
    /\ UNCHANGED environ

\* The data structure is given: a mapping, or a value that is none.
StructureData ==
    {PyDict(f) : f \in {g \in EnvCallKeywords : "__openllm_extras__" \notin DOMAIN g}}
    \cup {PyInt(5)}

\* bentoml_cattr.structure(data, cls)
Structure ==
    /\ last = Idle
    /\ \E n \in EnvCallClasses, data \in StructureData :
          /\ Built(n)
          /\ LET r == structure_llm_config(data, registry[n])
             IN  /\ last' = [Idle EXCEPT !.op = "structure", !.cls = n,
                                !.source = data, !.error = r.error,
                                !.warned = r.warned, !.inst = r.inst]
                 /\ registry' = [registry EXCEPT ![n] = class_after(@, r)]
    /\ UNCHANGED environ

InitEnv ==
    /\ environ \in EnvCallEnvironments
    /\ registry = [n \in ClassNames |->
                     IF n = "LLMConfig" THEN LLMConfigClass ELSE Undefined(n)]
    /\ last = Idle

NextEnv ==
    \/ DefineEnv
    \/ CallEnv
    \/ SetEnv
    \/ CallAgain
    \/ ConstructShared
    \/ Structure
    \/ Return

SpecEnv == InitEnv /\ [][NextEnv]_vars

\* The command line on its own: class BaseConfig(LLMConfig) and class
\* StrictConfig(BaseConfig) with fields of the types int, bool, a sequence
\* type and a union, and a field whose name starts with generation_.
\*   first: int = 1     first: bool = Field(False)     first: int = Field(NOTHING)
\*   second: t.List[int] = Field(None)     second: t.Union[int, str] = 2
\*   generation_top_k: int = 3
ClickFirst ==
    { Entry("first", "int", TRUE, FALSE, PyInt(1), FALSE),
      Entry("first", "bool", TRUE, TRUE, PyBool(FALSE), FALSE),
      Entry("first", "int", TRUE, TRUE, NOTHING, FALSE) }

ClickSecond ==
    { Entry("second", "list", TRUE, TRUE, None, FALSE),
      Entry("second", "union", TRUE, FALSE, PyInt(2), FALSE),
      Entry("generation_top_k", "int", TRUE, FALSE, PyInt(3), FALSE) }

ClickBodies ==
    {<<>>} \cup {<<e>> : e \in ClickFirst \cup ClickSecond}
           \cup {<<e1, e2>> : e1 \in ClickFirst, e2 \in ClickSecond}

ClickStatements ==
    { ClassStatement("BaseConfig", "LLMConfig", TRUE, TRUE, body, FALSE, EmptyDict) :
        body \in ClickBodies }
    \cup { ClassStatement("StrictConfig", "BaseConfig", TRUE, TRUE, body, FALSE,
                          EmptyDict) :
             body \in {<<>>} \cup {<<e>> : e \in ClickSecond} }

ClickClasses == {stmt.name : stmt \in ClickStatements}

ClickEnvKeys == { field_env_key("base", "first"), generation_env_key("base", "use_cache") }

DefineClick == Define(ClickStatements)

\* cls.to_click_options(f)
ToClickOptions ==
    /\ last = Idle
    /\ \E n \in ClickClasses :
          /\ Built(n)
          /\ last' = [Idle EXCEPT !.op = "to_click_options", !.cls = n,
                         !.options = to_click_options(registry[n])]
    /\ UNCHANGED <<environ, registry>>

\* The click attributes: at most MaxArgs of the identifiers of the options of
\* the class and of the key verbose, each with the value 5.
ClickAttributes(cls) ==
    LET options == to_click_options(cls)
        keys == {options[i].identifier : i \in DOMAIN options} \cup {"verbose"}
    IN  UNION { [S -> {PyInt(5)}] : S \in Subsets(keys, MaxArgs) }

\* config.model_validate_click(**attrs) on an instance of the class
ValidateClick ==
    /\ last = Idle
    /\ \E n \in ClickClasses :
          /\ Built(n)
          /\ \E attrs \in ClickAttributes(registry[n]) :
                LET r == model_validate_click(registry[n], environ, attrs)
                IN  /\ last' = [Idle EXCEPT !.op = "validate_click", !.cls = n,
                                   !.attrs = attrs, !.env = environ,
                                   !.error = r.result.error,
                                   !.warned = r.result.warned,
                                   !.inst = r.result.inst,
                                   !.out = PyDict(r.remaining)]
                    /\ registry' = [registry EXCEPT ![n] = class_after(@, r.result)]
    /\ UNCHANGED environ

InitClick ==
    /\ environ \in Environments(ClickEnvKeys)
    /\ registry = [n \in ClassNames |->
                     IF n = "LLMConfig" THEN LLMConfigClass ELSE Undefined(n)]
    /\ last = Idle

NextClick ==
    \/ DefineClick
    \/ ToClickOptions
    \/ ValidateClick
    \/ Return

SpecClick == InitClick /\ [][NextClick]_vars

\* Attribute lookup on the instances of BaseConfig and StrictConfig: the
\* constructor is called with extras that hold the name of a generation
\* field, another name, or that are no mapping, and an attribute is read.
LookupKeywords ==
    { EmptyDict,
      "foo" :> PyInt(5),
      "top_k" :> PyInt(5),
      "max_tokens" :> PyInt(5),
      "__openllm_extras__" :> PyDict("top_k" :> PyInt(8)),
      "__openllm_extras__" :> PyDict("foo" :> PyInt(8)),
      ("__openllm_extras__" :> PyDict("top_k" :> PyInt(8))) @@ ("top_k" :> PyInt(5)),
      ("__openllm_extras__" :> PyDict("top_k" :> PyInt(8))) @@ ("max_tokens" :> PyInt(5)),
      "__openllm_extras__" :> PyInt(5) }

LookupNames == {"seed", "top_k", "use_cache", "foo", "bar"}

\* cls(**attrs)
ConstructLookup ==
    /\ last = Idle
    /\ \E n \in EnvCallClasses, attrs \in LookupKeywords :
          /\ Built(n)
          /\ LET r == Call("construct", registry[n], environ, attrs)
             IN  /\ last' = [Idle EXCEPT !.op = "construct", !.cls = n,
                                !.attrs = attrs, !.env = environ,
                                !.error = r.error, !.warned = r.warned,
                                !.inst = r.inst]
                 /\ registry' = [registry EXCEPT ![n] = class_after(@, r)]
    /\ UNCHANGED environ

\* getattr(inst, item) on the instance just constructed.
GetAttr ==
    /\ last.op = "construct"
    /\ last.error = ""
    /\ \E item \in LookupNames :
          LET r == getattr(registry[last.cls], last.inst, item)
          IN  last' = [last EXCEPT !.op = "getattr", !.item = item,
                          !.out = r.value, !.again_error = r.error]
    /\ UNCHANGED <<environ, registry>>

NextLookup ==
    \/ DefineEnv
    \/ ConstructLookup
    \/ GetAttr
    \/ Return

SpecLookup == InitEnv /\ [][NextLookup]_vars

(***************************************************************************)
(* The claims.                                                             *)
(***************************************************************************)
\* A constructor call has returned an instance.
Constructed == last.op = "construct" /\ last.error = ""

\* The names of the primary field table of the class of the call.
PrimaryNames == Range(Names(registry[last.cls].attrs_attrs))

\* TRUE when the mapping entry e holds the value v: v itself, or, for two
\* mappings, every item of v.
Absorbs(e, v) ==
    IF IsDict(e) /\ IsDict(v)
    THEN \A j \in DOMAIN v.d : j \in DOMAIN e.d /\ e.d[j] = v.d[j]
    ELSE e = v

\* The value of keyword k has reached the primary field k, the generation
\* field k, the extras entry k.
InPrimary(k) ==
    k \in DOMAIN last.inst.fields /\ last.inst.fields[k] = last.attrs[k]

InGeneration(k) ==
    /\ k \in DOMAIN last.inst.generation_config
    /\ last.inst.generation_config[k] = last.attrs[k]

InExtras(k) ==
    /\ k \in DOMAIN last.inst.extras.d
    /\ Absorbs(last.inst.extras.d[k], last.attrs[k])

\* The number of buckets the value of keyword k has reached.
Buckets(k) ==
    (IF InPrimary(k) THEN 1 ELSE 0) + (IF InGeneration(k) THEN 1 ELSE 0)
    + (IF InExtras(k) THEN 1 ELSE 0)

\* The constructor drops keyword k: it names an accepted field and its value
\* is None, or it is already a key of the extras the caller supplied, or it
\* names a generation field while an explicit generation_config is passed.
Dropped(k) ==
    \/ /\ k \in registry[last.cls].accepted_keys
       /\ \/ last.attrs[k] = None
          \/ k \in DOMAIN last.extras.d
    \/ /\ k \in GenerationNames
       /\ last.generation_config # None

\* C1 as stated: every key of the keyword mapping ends up in exactly one of
\* the three buckets (primary field, generation field, extras) of the
\* instance: none is lost and none lands in two.
C1_PartitionAsStated ==
    Constructed => \A k \in DOMAIN last.attrs : Buckets(k) = 1

\* C1 amended: every keyword the constructor does not drop ends up in
\* exactly one of the three buckets, and a dropped keyword (a None for an
\* accepted field, an accepted key that the caller's extras already hold, a
\* generation field beside an explicit generation_config) ends up in none.
C1_Partition ==
    Constructed =>
       \A k \in DOMAIN last.attrs : Buckets(k) = IF Dropped(k) THEN 0 ELSE 1

\* The scenario of the partition law: {top_k: 5, foo: 5} gives the sub-config
\* top_k = 5 and the extras {foo: 5}.
C1_Witness ==
    /\ Constructed
    /\ last.cls = "ExampleConfig"
    /\ last.attrs = ("top_k" :> PyInt(5)) @@ ("foo" :> PyInt(5))
    /\ last.inst.generation_config["top_k"] = PyInt(5)
    /\ last.inst.extras = PyDict("foo" :> PyInt(5))

\* C2 as stated: the extras of a constructed instance hold no key that is a
\* name of the primary field table (inherited fields included) or of the
\* generation field table.
C2_ExtrasDisjointFromFields ==
    Constructed =>
       DOMAIN last.inst.extras.d \cap (PrimaryNames \cup GenerationNames) = {}

\* C3 as stated: an explicit non-null argument for a primary field is the
\* value of that field, whatever the environment holds.
C3_ExplicitArgumentWins ==
    Constructed =>
       \A k \in DOMAIN last.attrs \cap PrimaryNames :
          last.attrs[k] # None => last.inst.fields[k] = last.attrs[k]

\* The entry of a class body that declares name.
DeclaredEntry(stmt, name) ==
    stmt.body[CHOOSE i \in DOMAIN stmt.body : stmt.body[i].name = name]

Declares(stmt, name) == \E i \in DOMAIN stmt.body : stmt.body[i].name = name

\* The class, among cls and its ancestors, nearest to cls that declares name.
RECURSIVE Declarer(_, _)

Declarer(cls_name, name) ==
    IF Declares(registry[cls_name].stmt, name) THEN cls_name
    ELSE Declarer(registry[cls_name].stmt.base, name)

\* The default the class statement that declares name gives it.
DeclaredDefault(cls_name, name) ==
    DeclaredEntry(registry[Declarer(cls_name, name)].stmt, name).default

\* The value an environment string denotes for a field of type int.
Interpreted(s) == PyInt(ParseInt(s))

\* The primary fields the call gives no argument for.
Defaulted == PrimaryNames \ DOMAIN last.attrs

RECURSIVE CarriedDefault(_, _)

CarriedDefault(cls_name, f) ==
    IF Declares(registry[cls_name].stmt, f)
    THEN DeclaredEntry(registry[cls_name].stmt, f).default
    ELSE LET base == registry[cls_name].stmt.base
             key == field_env_key(registry[base].model_name, f)
         IN  IF key \in DOMAIN environ THEN Interpreted(environ[key])
             ELSE CarriedDefault(base, f)

ExpectedGenerationDefault(cls, i) ==
    LET g == GenerationConfig[i]
        key == generation_env_key(cls.model_name, g.name)
    IN  IF cls.stmt.has_block /\ g.name \in DOMAIN cls.stmt.block
        THEN cls.stmt.block[g.name]
        ELSE IF key \in DOMAIN environ THEN PyStr(environ[key])
        ELSE g.default

\* The value an instance built without arguments holds for a default.
AsInstanceValue(type, default) ==
    IF default.t = "str" /\ type = "int" THEN Interpreted(default.s) ELSE default

\* C5: with a GenerationConfig block, every field of the derived generation
\* class defaults to the block's value if the block defines it, else to the
\* value of OPENLLM_<MODEL>_GENERATION_<G> if set at schema build, else to
\* the default of the base GenerationConfig.
C5_BlockThenEnvThenBase ==
    \A n \in ClassNames \ {"LLMConfig"} :
       (Built(n) /\ registry[n].stmt.has_block) =>
          /\ Names(registry[n].generation_class) = Names(GenerationConfig)
          /\ \A i \in DOMAIN GenerationConfig :
                registry[n].generation_class[i].default
                   = ExpectedGenerationDefault(registry[n], i)

\* A block that sets top_k = 10, with OPENLLM_EXAMPLE_GENERATION_MIN_NEW_TOKENS
\* set: top_k defaults to the block's 10, min_new_tokens to the variable's
\* string.
C5_Witness ==
    /\ Built("ExampleConfig")
    /\ registry["ExampleConfig"].stmt.has_block
    /\ generation_env_key("example", "min_new_tokens") \in DOMAIN environ
    /\ registry["ExampleConfig"].generation_class[1].default = PyInt(10)
    /\ registry["ExampleConfig"].generation_class[2].default
          = PyStr(environ[generation_env_key("example", "min_new_tokens")])

\* C6 as stated: without a GenerationConfig block, the derived generation
\* class has the fields of the base and every field defaults to the value of
\* OPENLLM_<MODEL>_GENERATION_<G> if set at schema build, else to the base
\* default (a variable's string is taken as the value it denotes for the
\* field's type).
C6_NoBlockEnvThenBase ==
    \A n \in ClassNames \ {"LLMConfig"} :
       (Built(n) /\ ~registry[n].stmt.has_block) =>
          /\ Names(registry[n].generation_class) = Names(GenerationConfig)
          /\ \A i \in DOMAIN GenerationConfig :
                AsInstanceValue(GenerationConfig[i].type,
                                registry[n].generation_class[i].default)
                   = AsInstanceValue(GenerationConfig[i].type,
                                     ExpectedGenerationDefault(registry[n], i))

\* A constructor call with an explicit generation_config mapping and
\* keywords that name generation fields.
Collision ==
    /\ last.op = "construct"
    /\ IsDict(last.generation_config)
    /\ last.extras = None \/ IsDict(last.extras)

Colliding == DOMAIN last.attrs \cap GenerationNames

\* The sub-config comes from the explicit mapping alone, and no colliding
\* keyword value reaches a bucket.
CollisionResolved ==
    /\ last.error = ""
    /\ \A g \in DOMAIN last.generation_config.d :
          last.inst.generation_config[g] = last.generation_config.d[g]
    /\ \A i \in DOMAIN GenerationConfig :
          GenerationConfig[i].name \notin DOMAIN last.generation_config.d =>
             last.inst.generation_config[GenerationConfig[i].name]
                = AsInstanceValue(GenerationConfig[i].type,
                                  registry[last.cls].generation_class[i].default)
    /\ \A k \in Colliding : Buckets(k) = 0

\* C7 as stated: on a collision the construction does not fail, a warning is
\* logged, the sub-config takes the colliding fields from the explicit
\* mapping, and the colliding keyword values are dropped.
C7_CollisionAsStated ==
    (Collision /\ Colliding # {}) => (CollisionResolved /\ last.warned)

\* C7 amended: on a collision the construction does not fail, the sub-config
\* takes its values from the explicit mapping alone, the colliding keyword
\* values are dropped, and the warning is logged exactly when a colliding
\* keyword has a non-null value and is no key of the caller's extras.
C7_Collision ==
    (Collision /\ Colliding # {}) =>
       /\ CollisionResolved
       /\ last.warned <=>
             \E k \in Colliding :
                last.attrs[k] # None /\ k \notin DOMAIN last.extras.d

\* generation_config = {top_k: 9} with the keyword top_k = 5: a warning, and
\* the sub-config holds top_k = 9.
C7_Witness ==
    /\ Collision
    /\ last.cls = "ExampleConfig"
    /\ last.generation_config = PyDict("top_k" :> PyInt(9))
    /\ last.attrs = ("top_k" :> PyInt(5))
    /\ last.warned
    /\ last.error = ""
    /\ last.inst.generation_config["top_k"] = PyInt(9)
    /\ last.inst.extras = PyDict(EmptyDict)

\* C8: merge(target, source) of two mappings is their key-by-key union, with
\* the mappings found on both sides at the same key merged in the same way;
\* for any other pair of values the source replaces the target.
MergedLeaf(t, s, o) ==
    IF IsDict(t) /\ IsDict(s)
    THEN /\ IsDict(o)
         /\ DOMAIN o.d = DOMAIN t.d \cup DOMAIN s.d
         /\ \A k \in DOMAIN o.d :
               o.d[k] = IF k \in DOMAIN s.d THEN s.d[k] ELSE t.d[k]
    ELSE o = s

C8_MergeLaw ==
    last.op = "merge" =>
       LET t == last.target
           s == last.source
           o == last.out
       IN  /\ IF IsDict(t) /\ IsDict(s)
              THEN /\ IsDict(o)
                   /\ DOMAIN o.d = DOMAIN t.d \cup DOMAIN s.d
                   /\ \A k \in DOMAIN o.d :
                         IF k \notin DOMAIN s.d THEN o.d[k] = t.d[k]
                         ELSE IF k \notin DOMAIN t.d THEN o.d[k] = s.d[k]
                         ELSE MergedLeaf(t.d[k], s.d[k], o.d[k])
              ELSE o = s
           /\ (t = PyDict("a" :> PyDict("x" :> PyInt(1)))
               /\ s = PyDict("a" :> PyDict("y" :> PyInt(2))))
              => o = PyDict("a" :> PyDict(("x" :> PyInt(1)) @@ ("y" :> PyInt(2))))
           /\ (t = PyDict("a" :> PyInt(1))
               /\ s = PyDict("a" :> PyDict("y" :> PyInt(2))))
              => o = PyDict("a" :> PyDict("y" :> PyInt(2)))

\* merge({a: {x: 1}}, {a: {y: 2}}) = {a: {x: 1, y: 2}}
C8_Witness ==
    /\ last.op = "merge"
    /\ last.target = PyDict("a" :> PyDict("x" :> PyInt(1)))
    /\ last.source = PyDict("a" :> PyDict("y" :> PyInt(2)))
    /\ last.out = PyDict("a" :> PyDict(("x" :> PyInt(1)) @@ ("y" :> PyInt(2))))

\* C9 as stated: structuring the dump of an instance gives an instance with
\* the same primary values, the same generation values and the same extras.
C9_RoundTrip ==
    last.op = "roundtrip" => (last.again_error = "" /\ last.again = last.inst)

\* The field table stored on a schema holds no name twice.
DistinctNames(attrs) ==
    \A i, j \in DOMAIN attrs : attrs[i].name = attrs[j].name => i = j

\* Among the fields of a table that are not keyword-only, none without a
\* default stands after one with a default.
MandatoryFirst(attrs) ==
    \A i, j \in DOMAIN attrs :
       (/\ i < j
        /\ ~attrs[i].kw_only /\ ~attrs[j].kw_only
        /\ attrs[i].default # NOTHING)
       => attrs[j].default # NOTHING

DeclaredNames(stmt) == {stmt.body[i].name : i \in DOMAIN stmt.body}

\* The names the class and its ancestors declare.
RECURSIVE ChainNames(_)

ChainNames(cls_name) ==
    IF cls_name = "LLMConfig" THEN {}
    ELSE DeclaredNames(registry[cls_name].stmt)
         \cup ChainNames(registry[cls_name].stmt.base)

\* The attribute the field table of a class holds for name.
TableEntry(cls_name, name) ==
    LET attrs == registry[cls_name].attrs_attrs
    IN  attrs[CHOOSE i \in DOMAIN attrs : attrs[i].name = name]

\* C11: the final field table of a schema holds every name the schema or an
\* ancestor declares exactly once, and the attribute it holds for a name is
\* the declaration of the schema itself when the schema declares the name,
\* else the declaration of the nearest ancestor that declares it: it has
\* the type of that declaration, is marked inherited exactly when an
\* ancestor declared it, and every other declaration is discarded.
C11_NearestDeclarationWins ==
    \A n \in ClassNames \ {"LLMConfig"} :
       Built(n) =>
          /\ Range(Names(registry[n].attrs_attrs)) = ChainNames(n)
          /\ DistinctNames(registry[n].attrs_attrs)
          /\ \A name \in ChainNames(n) :
                LET a == TableEntry(n, name)
                    d == Declarer(n, name)
                IN  /\ a.type = DeclaredEntry(registry[d].stmt, name).type
                    /\ a.inherited <=> d # n

\* StrictConfig declares no field first, ExampleConfig and BaseConfig both
\* do: the table of StrictConfig holds the declaration of ExampleConfig.
C11_Witness ==
    /\ Built("StrictConfig")
    /\ ~Declares(registry["StrictConfig"].stmt, "first")
    /\ Declares(registry["ExampleConfig"].stmt, "first")
    /\ Declares(registry["BaseConfig"].stmt, "first")
    /\ TableEntry("StrictConfig", "first").type = "float"
    /\ TableEntry("StrictConfig", "first").inherited

\* C12 as stated: every field of the final field table of a schema, own or
\* inherited, records the environment key OPENLLM_<M>_<NAME> of that schema
\* (the key its default is read from), and every field of its generation
\* class records OPENLLM_<M>_GENERATION_<NAME>.
C12_RecordedEnvKey ==
    \A n \in ClassNames \ {"LLMConfig"} :
       Built(n) =>
          /\ \A i \in DOMAIN registry[n].attrs_attrs :
                registry[n].attrs_attrs[i].env
                   = field_env_key(registry[n].model_name,
                                   registry[n].attrs_attrs[i].name)
          /\ \A i \in DOMAIN registry[n].generation_class :
                registry[n].generation_class[i].env
                   = generation_env_key(registry[n].model_name,
                                        registry[n].generation_class[i].name)

\* C13 as stated: after schema build no change of the environment changes
\* the result of a call: the constructor and model_construct_env, called
\* again with the same arguments, give the same error or an equal instance.
C13_EnvironmentReadAtBuildOnly ==
    last.op \in {"construct_again", "construct_env_again"} =>
       (last.again_error = last.error /\ last.again = last.inst)

\* The declarations a class statement sees, own then inherited: the
\* annotated entries of its body, then those of its ancestors it does not
\* declare itself.
RECURSIVE DeclaredOrder(_)

DeclaredOrder(cls_name) ==
    IF cls_name = "LLMConfig" THEN <<>>
    ELSE LET stmt == registry[cls_name].stmt
             own == SelectSeq(stmt.body, LAMBDA e : e.annotated)
             names == {own[i].name : i \in DOMAIN own}
         IN  own \o SelectSeq(DeclaredOrder(stmt.base),
                              LAMBDA e : e.name \notin names)

\* A declaration without default: name: type = Field(NOTHING).
DeclaredMandatory(e) == e.counting /\ e.default = NOTHING

\* The defects of a class statement.
Defective(cls_name) ==
    LET stmt == registry[cls_name].stmt
        order == DeclaredOrder(cls_name)
    IN  \/ \E i \in DOMAIN stmt.body :
              stmt.body[i].counting /\ ~stmt.body[i].annotated
        \/ \E i, j \in DOMAIN order :
              /\ i < j
              /\ ~order[i].kw_only /\ ~order[j].kw_only
              /\ ~DeclaredMandatory(order[i])
              /\ DeclaredMandatory(order[j])
        \/ ~stmt.has_default_id
        \/ ~stmt.has_model_ids

Exposed(cls) ==
    \/ cls.assigned
    \/ cls.model_name # ""
    \/ cls.openllm_attrs # <<>>
    \/ cls.attrs_attrs # <<>>
    \/ cls.has_attrs
    \/ cls.accepted_keys # {}
    \/ cls.has_generation_class

BuiltSchemasUnchanged ==
    [][\A n \in ClassNames : Built(n) => registry'[n] = registry[n]]_vars

\* The mapping structure was given, when it is one.
Structured == last.op = "structure" /\ last.error = ""

\* Every key of the mapping m that names a generation field gives the
\* sub-configuration of the instance its value.
Populates(m) ==
    \A k \in DOMAIN m \cap DOMAIN last.inst.generation_config :
       last.inst.generation_config[k] = m[k]

\* C16 as stated: structure(data, cls) takes the sub-configuration from
\* data["generation_config"] when data has that key, whatever top-level keys
\* of data name generation fields, and from those top-level keys when it has
\* not; every other key that names no field becomes an entry of the extras.
C16_StructureSubConfig ==
    Structured =>
       LET data == last.source.d
           cls == registry[last.cls]
           rest == DOMAIN data \ ({"generation_config"}
                                   \cup Range(cls.openllm_attrs)
                                   \cup Range(Names(cls.generation_class)))
       IN  /\ IF "generation_config" \in DOMAIN data
              THEN Populates(data["generation_config"].d)
              ELSE Populates(data)
           /\ \A k \in rest : /\ k \in DOMAIN last.inst.extras.d
                              /\ last.inst.extras.d[k] = data[k]

\* The mapping arguments of the operation just performed: generation_config
\* and __openllm_extras__ of a call, data and data["generation_config"] of
\* structure.
MappingArguments ==
    IF last.op \in {"construct", "construct_env"}
    THEN {last.attrs[k] : k \in DOMAIN last.attrs
                               \cap {"generation_config", "__openllm_extras__"}}
    ELSE IF last.op = "structure"
    THEN {last.source} \cup {last.source.d[k] : k \in DOMAIN last.source.d
                                                     \cap {"generation_config"}}
    ELSE {}

\* C17 as stated, whatever the error is: an operation that is given a value
\* that is no mapping where it requires a mapping raises an error and
\* produces no instance.
C17_NonMappingRejected ==
    (\E v \in MappingArguments : ~IsDict(v)) =>
       (last.error # "" /\ last.inst = NoInstance)

\* model_construct_env has just been called on a class; the variable of its
\* JSON override.
ConstructedFromEnv == last.op = "construct_env"

OverrideVariable == "OPENLLM_" \o Upper(registry[last.cls].model_name) \o "_CONFIG"

\* The instance the class gives without arguments.
NoArguments == __init__(registry[last.cls], None, None, EmptyDict).inst

\* C18: when the override variable OPENLLM_<MODEL>_CONFIG holds a text that
\* is no JSON document, model_construct_env raises an error that names the
\* variable and returns no instance; when the variable is unset, the
\* instance it returns has, for every primary field and generation field the
\* keywords do not name, the value of the instance built without arguments.
C18_OverrideParse ==
    ConstructedFromEnv =>
       /\ (OverrideVariable \in DOMAIN last.env
           /\ ~loads(last.env[OverrideVariable]).ok)
          => /\ last.error = "RuntimeError: Failed to parse '" \o OverrideVariable
                                \o "' as valid JSON string."
             /\ last.inst = NoInstance
       /\ (OverrideVariable \notin DOMAIN last.env /\ last.error = "")
          => /\ \A f \in DOMAIN last.inst.fields \ DOMAIN last.attrs :
                   last.inst.fields[f] = NoArguments.fields[f]
             /\ \A f \in DOMAIN last.inst.generation_config \ DOMAIN last.attrs :
                   "generation_config" \notin DOMAIN last.attrs
                   => last.inst.generation_config[f] = NoArguments.generation_config[f]

\* model_construct_env was called with a text that is no JSON document in
\* the override variable of its class.
C18_Witness ==
    /\ ConstructedFromEnv
    /\ OverrideVariable \in DOMAIN last.env
    /\ last.env[OverrideVariable] = <<"{">>
    /\ last.error # ""

\* C19 as stated, for the extras: the extras of an instance are, after the
\* construction of another instance that was given the same mapping, what
\* they were when the instance was constructed.
C19_InstanceUnchanged ==
    last.op = "construct_shared" => last.out = last.inst.extras

\* What schema build produces for a class: the field table, the names of
\* the fields it declares, the accepted keys and the generation class with
\* its defaults.
SchemaOf(cls) ==
    [attrs_attrs |-> cls.attrs_attrs, openllm_attrs |-> cls.openllm_attrs,
     accepted_keys |-> cls.accepted_keys,
     generation_class |-> cls.generation_class,
     has_generation_class |-> cls.has_generation_class]

\* C20: no step taken after a class is built, the constructions on it
\* included, successful or failing, changes its field table, its accepted
\* keys or its generation class with the defaults of its fields: they stay
\* what its class statement produced.
C20_SchemaUnchanged ==
    [][\A n \in ClassNames \ {"LLMConfig"} :
          Built(n) => SchemaOf(registry'[n]) = SchemaOf(registry[n])]_vars

\* A construction has failed after it assigned the __repr__ of its class.
C20_Witness ==
    /\ last.op = "construct"
    /\ last.error # ""
    /\ registry[last.cls].repr # <<>>

\* to_click_options has returned the options of a class.
Projected == last.op = "to_click_options"

\* The field an option was made for, with its declared type.
OptionField(o) ==
    LET cls == registry[last.cls]
        table == IF o.suffix_generation THEN cls.generation_class
                 ELSE cls.attrs_attrs
    IN  table[CHOOSE i \in DOMAIN table : table[i].name = o.name]

\* C21 as stated: every option has the flag --<dasherized name>, extended to
\* --<name>/--no-<name> exactly when the type of its field is bool; it is
\* required exactly when the field has no default; its default is the one
\* of the field, none when that is absent or None; its env key is the one
\* recorded on the field; it allows multiple values exactly when the
\* declared type is a sequence type.
C21_OptionDescriptor ==
    Projected =>
       \A i \in DOMAIN last.options :
          LET o == last.options[i]
              f == OptionField(o)
              dashed == dasherize(o.name)
          IN  /\ o.full_option_name
                   = IF f.type = "bool" THEN "--" \o dashed \o "/--no-" \o dashed
                     ELSE "--" \o dashed
              /\ o.required <=> f.default = NOTHING
              /\ o.default = IF f.default = NOTHING THEN None ELSE f.default
              /\ o.envvar = f.env
              /\ o.multiple <=> f.type = "list"

\* The options the fields of a table call for: one for every field whose
\* type is no union.
ExpectedOptions(table, suffix_generation, prefix) ==
    { [name |-> table[i].name, suffix_generation |-> suffix_generation,
       identifier |-> prefix \o table[i].name] :
        i \in {j \in DOMAIN table : table[j].type # "union"} }

\* C22 as stated: to_click_options emits exactly one option for every
\* generation field whose type is no union, with the identifier
\* <model>_generation_<name>, exactly one for every field of the primary
\* field table, own or inherited, whose type is no union, with the
\* identifier <model>_<name>, and no other option.
C22_OneOptionPerField ==
    Projected =>
       LET cls == registry[last.cls]
           expected ==
               ExpectedOptions(cls.generation_class, TRUE,
                               cls.model_name \o "_generation_")
               \cup ExpectedOptions(cls.attrs_attrs, FALSE, cls.model_name \o "_")
           emitted(i) == [name |-> last.options[i].name,
                          suffix_generation |-> last.options[i].suffix_generation,
                          identifier |-> last.options[i].identifier]
       IN  /\ \A e \in expected :
                Cardinality({i \in DOMAIN last.options : emitted(i) = e}) = 1
           /\ \A i \in DOMAIN last.options : emitted(i) \in expected

\* The non-null keywords of the call and the mapping of the JSON override,
\* empty when the variable is unset.
ExplicitKeywords == Restrict(last.attrs, {k \in DOMAIN last.attrs : last.attrs[k] # None})

OverrideMapping ==
    IF OverrideVariable \in DOMAIN last.env
    THEN loads(last.env[OverrideVariable]).v.d ELSE EmptyDict

\* The values a mapping gives for generation field g: the one at top level
\* and the one inside its generation_config mapping.
GivenForGeneration(mapping, g) ==
    {mapping[k] : k \in {g} \cap DOMAIN mapping}
    \cup (IF "generation_config" \in DOMAIN mapping
             /\ IsDict(mapping["generation_config"])
          THEN {mapping["generation_config"].d[k] :
                  k \in {g} \cap DOMAIN mapping["generation_config"].d}
          ELSE {})

\* The value an instance holds for the default of field f of a field table.
SchemaDefault(table, f) ==
    LET a == table[CHOOSE i \in DOMAIN table : table[i].name = f]
    IN  AsInstanceValue(a.type, a.default)

\* C23 as stated: in the instance model_construct_env returns, every primary
\* field and every generation field holds the explicit non-null keyword of
\* the call (top-level, or inside generation_config for a generation field)
\* if there is one, else the value of the JSON mapping of
\* OPENLLM_<MODEL>_CONFIG if it has one, else the default of the schema; the
\* extras the JSON mapping carries are kept.
C23_Precedence ==
    (ConstructedFromEnv /\ last.error = "") =>
       LET cls == registry[last.cls]
           generation_names == Range(Names(cls.generation_class))
       IN  /\ \A f \in PrimaryNames :
                 last.inst.fields[f] =
                    IF f \in DOMAIN ExplicitKeywords THEN ExplicitKeywords[f]
                    ELSE IF f \in DOMAIN OverrideMapping THEN OverrideMapping[f]
                    ELSE SchemaDefault(cls.attrs_attrs, f)
           /\ \A g \in generation_names :
                 LET explicit == GivenForGeneration(ExplicitKeywords, g)
                     override == GivenForGeneration(OverrideMapping, g)
                 IN  IF explicit # {}
                     THEN last.inst.generation_config[g] \in explicit
                     ELSE IF override # {}
                     THEN last.inst.generation_config[g] \in override
                     ELSE last.inst.generation_config[g]
                             = SchemaDefault(cls.generation_class, g)
           /\ \A k \in DOMAIN OverrideMapping
                         \ (PrimaryNames \cup generation_names
                            \cup {"generation_config"}) :
                 /\ k \in DOMAIN last.inst.extras.d
                 /\ last.inst.extras.d[k] = OverrideMapping[k]

\* The keywords of the call that match no field, primary or generation.
NoFieldKeywords ==
    Restrict(last.attrs, DOMAIN last.attrs \ (PrimaryNames \cup GenerationNames))

\* C24: when the caller supplies an extras mapping E and keywords U that
\* match no field, the extras of the instance are the deep merge of U into
\* E: every key of E absent from U is kept, mappings present on both sides
\* are merged key by key, a conflict on any other value goes to U, and E is
\* never replaced wholesale by U.
C24_ExtrasDeepMerge ==
    (Constructed /\ IsDict(last.extras)) =>
       LET U == NoFieldKeywords
           E == last.extras.d
           X == last.inst.extras
       IN  /\ IsDict(X)
           /\ DOMAIN X.d = DOMAIN E \cup DOMAIN U
           /\ \A k \in DOMAIN X.d :
                 IF k \notin DOMAIN U THEN X.d[k] = E[k]
                 ELSE IF k \notin DOMAIN E THEN X.d[k] = U[k]
                 ELSE MergedLeaf(E[k], U[k], X.d[k])

\* An attribute that is no primary field has been looked up on an instance.
LookedUp == last.op = "getattr" /\ last.item \notin PrimaryNames

\* C25 as stated: the lookup of a name that is no primary field returns the
\* value of the generation config when the generation class has a field of
\* that name, otherwise the item of the extras when the extras have the key,
\* otherwise it fails with an attribute error; a generation field shadows
\* an item of the extras with the same name.
C25_LookupOrder ==
    LookedUp =>
       LET n == last.item
           extras == last.inst.extras
       IN  IF n \in Range(Names(registry[last.cls].generation_class))
           THEN last.again_error = "" /\ last.out = last.inst.generation_config[n]
           ELSE IF IsDict(extras) /\ n \in DOMAIN extras.d
           THEN last.again_error = "" /\ last.out = extras.d[n]
           ELSE last.again_error = "AttributeError"

\* model_validate_click has returned an instance and the remaining mapping.
Validated == last.op = "validate_click" /\ last.error = ""

\* C26 as stated: every identifier that to_click_options emits is routed
\* back to the field it was generated from (a generation field for
\* <model>_generation_<x>, a primary field for <model>_<x>, the primary
\* fields whose name starts with generation_ included), and the remaining
\* mapping holds exactly the keys without the prefix <model>_, values
\* unchanged.
C26_ClickRouting ==
    Validated =>
       LET cls == registry[last.cls]
           options == to_click_options(cls)
       IN  /\ \A i \in DOMAIN options :
                 LET o == options[i]
                 IN  o.identifier \in DOMAIN last.attrs =>
                        IF o.suffix_generation
                        THEN last.inst.generation_config[o.name]
                                = last.attrs[o.identifier]
                        ELSE last.inst.fields[o.name] = last.attrs[o.identifier]
           /\ last.out
                 = PyDict(Restrict(last.attrs,
                                   {k \in DOMAIN last.attrs :
                                      ~startswith(k, cls.model_name \o "_")}))

\* The keywords of the call without the key k, and without every key whose
\* value is None.
Without(k) == Restrict(last.attrs, DOMAIN last.attrs \ {k})

NonNull == Restrict(last.attrs, {k \in DOMAIN last.attrs : last.attrs[k] # None})

\* C27 as stated: a keyword of the constructor whose value is None is
\* treated as not supplied when it names a primary or generation field (the
\* instance is the one built without the keyword, the field holds its
\* default), and is stored in the extras with the value None when it names
\* no field; model_construct_env discards the keywords whose value is None
\* before it routes the others.
C27_NoneKeyword ==
    /\ (last.op = "construct" /\ last.error = "") =>
          \A k \in DOMAIN last.attrs \ {"generation_config", "__openllm_extras__"} :
             last.attrs[k] = None =>
                IF k \in PrimaryNames
                        \cup Range(Names(registry[last.cls].generation_class))
                THEN last.inst = Call("construct", registry[last.cls], last.env,
                                      Without(k)).inst
                ELSE /\ k \in DOMAIN last.inst.extras.d
                     /\ last.inst.extras.d[k] = None
    /\ ConstructedFromEnv =>
          LET r == Call("construct_env", registry[last.cls], last.env, NonNull)
          IN  last.error = r.error /\ last.inst = r.inst

====
